---- MODULE Spec2Model ----
(***************************************************************************)
(* Model of the lifecycle Worker (package lifecycle): the guarded state    *)
(* machine, its observer fan-out, the ready/done signals, and the          *)
(* goroutines started by StartBackgroundCtx, ShutdownCtx and TerminateCtx. *)
(*                                                                         *)
(* Every goroutine is a thread with a program counter.  A step of a thread *)
(* is one atomic action; the critical section of transition() is entered   *)
(* in one step (lock, guard, assignment of the state) and then performs    *)
(* one blocking channel send per registered observer, holding the mutex.   *)
(* Hooks and the readiness probe belong to the environment: they return    *)
(* whenever they like, with any of a few error values.  Statements that    *)
(* touch only a thread's own variables (entering a function, the error     *)
(* filter of handleError, the hand-over on an unbuffered channel) are part *)
(* of the step that precedes them.                                         *)
(***************************************************************************)
EXTENDS Naturals, Sequences, FiniteSets

(* ------------------------------------------------------------------ *)
(* Values                                                             *)
(* ------------------------------------------------------------------ *)

Initial      == "Initial"
Starting     == "Starting"
Started      == "Started"
ShuttingDown == "ShuttingDown"
Terminating  == "Terminating"
Stopped      == "Stopped"
Error        == "Error"

States == {Initial, Starting, Started, ShuttingDown, Terminating, Stopped, Error}

\* Action (signal action); NewWorkerWithOptions replaces Undefined by Shutdown.
ActUndefined == "Undefined"
ActDoNothing == "DoNothing"
ActShutdown  == "Shutdown"
ActTerminate == "Terminate"

\* Error values.  Nil is the nil error; None marks "no value yet".
Nil            == "nil"
None           == "none"
errInvalidState == "invalid"
errInterrupted  == "interrupted"
errOops         == "oops"
errIgnore       == "ignore"

\* What the shutdown hook, the terminate hook and the readiness probe may
\* return: nil, an error, an error the Error hook suppresses.
HookResults == {Nil, errOops, errIgnore}

\* What the start hook may return: as above, or an Interrupted error ("returned
\* by the service Start function when it is being shut down").
StartResults == HookResults \cup {errInterrupted}

\* Observer channels handed to Observe / Unobserve.
Chans == {"o1", "o2"}

\* Bound of the environment: how many stimuli (calls of StartBackground,
\* Shutdown, Terminate, Observe and Unobserve, and signals) one run contains.
\* What the worker does in response (hooks returning, timeouts, goroutines)
\* is not counted.
MaxStimuli == 3

\* Threads: callers of the public API and the goroutines of the worker.
StartCallers     == {"st1", "st2"}
ShutdownCallers  == {"sd1", "sd2"}
TerminateCallers == {"tm1"}
Callers          == StartCallers \cup ShutdownCallers \cup TerminateCallers
Goroutines       == {"runner", "detector", "watcher", "sigh"}
SignalThreads    == {"watcher"}
Threads          == Callers \cup Goroutines

VARIABLES
  state,       \* Worker.state
  observers,   \* Worker.observers: sequence of channels, in registration order
  cs,          \* the transition holding Worker.mut and its delivery loop, or NoCS
  unlockOnce,  \* Worker.unlockOnce has run
  done,        \* number of times close(c.done) was executed
  ready,       \* number of times close(c.ready) was executed
  pc,          \* position of every thread
  err,         \* the error a thread is carrying through handleError
  ret,         \* what the API call of a thread returned (None: not returned)
  startHook,   \* hooks.Start: "idle", "running", or how it ended: "returned"
               \* (nil, or an error that handleError drops), "failed" (an
               \* error that handleError takes to the Error transition)
  sdHook,      \* hooks.Shutdown: "idle", "running", or how it ended:
               \* "returned" (nil), "failed", "suppressed" (an error that
               \* handleError drops), "late" (it ended unheard)
  tmHook,      \* hooks.Terminate: as hooks.Shutdown
  svcStopped,  \* the service was stopped by a shutdown/terminate hook
  sdTimedOut,  \* ShutdownCtx took the ctx.Done() branch
  recv,        \* per channel: events received, in order
  closed,      \* per channel: closed by the worker
  terminals,   \* number of successful transitions into Stopped or Error
  reg,         \* per channel: how it was registered ("none","early","late","other")
  stimuli,     \* number of stimuli the environment has applied
  panicked,    \* the process died of a run-time panic
  signalAction \* opts.SignalAction, once the signal watcher has read it

shared == <<state, observers, cs, recv, closed, terminals, panicked>>
sigs   == <<unlockOnce, done, ready>>
ctl    == <<pc, err, ret, startHook, sdHook, tmHook>>
env    == <<svcStopped, sdTimedOut>>
obsapi == <<reg, stimuli>>
config == <<signalAction>>
vars   == <<shared, sigs, ctl, env, obsapi, config>>

NoCS == [owner |-> None]

Terminal == {Stopped, Error}

\* Faulty variant of Event: From is filled with the new state.
EventFromTo(from, to, cause) == [from |-> to, to |-> to, err |-> cause]

\* Event{From, To, Error}; the Context field carries no behaviour.
Event(from, to, cause) == [from |-> from, to |-> to, err |-> cause]

(* ------------------------------------------------------------------ *)
(* Pure helpers                                                       *)
(* ------------------------------------------------------------------ *)

\* IsInterrupted: errors.Is(err, errInterrupted)
IsInterrupted(e) == e = errInterrupted

\* IsInvalidState: errors.Is(err, errInvalidState)
IsInvalidState(e) == e = errInvalidState

\* hooks.Error as configured by the test worker: "ignore" is suppressed,
\* every other error is passed through unchanged.  It does not look at
\* Event.From, which handleError reads from c.state without the lock.
ErrorHook(e) == IF e = errIgnore THEN Nil ELSE e

\* Faulty variant of isStateOneOf: every state passes.
isStateOneOfAny(states) == TRUE

\* Worker.isStateOneOf
isStateOneOf(states) == state \in states

\* Faulty variant of isFinalState: only Stopped finishes the observers.
isFinalStateStopped(to, cause) == to = Stopped

\* isFinalState := cause != nil || to == Stopped || to == Error
isFinalState(to, cause) == cause # Nil \/ to = Stopped \/ to = Error

\* Unobserve's loop: remove the first occurrence of ch.
RECURSIVE RemoveFirst(_, _)
RemoveFirst(s, ch) ==
  IF s = <<>> THEN <<>>
  ELSE IF Head(s) = ch THEN Tail(s)
  ELSE <<Head(s)>> \o RemoveFirst(Tail(s), ch)

InSeq(s, ch) == \E i \in 1..Len(s) : s[i] = ch

\* NewWorkerWithOptions: an Undefined signal action becomes Shutdown.
NormalizeAction(a) == IF a = ActUndefined THEN ActShutdown ELSE a

(* ------------------------------------------------------------------ *)
(* Initial state: NewWorkerWithOptions.  The options are immutable and *)
(* each is read at one place only, so its value is drawn where it is   *)
(* read: the readiness probe by the detector's actions, the signal     *)
(* action by the watcher (None: not read yet).                         *)
(* ------------------------------------------------------------------ *)

Init ==
  /\ state = Initial
  /\ observers = <<>>
  /\ cs = NoCS
  /\ unlockOnce = FALSE
  /\ done = 0
  /\ ready = 0
  /\ pc = [t \in Threads |-> IF t \in Callers THEN "idle" ELSE "off"]
  /\ err = [t \in Threads |-> Nil]
  /\ ret = [t \in Threads |-> None]
  /\ startHook = "idle"
  /\ sdHook = "idle"
  /\ tmHook = "idle"
  /\ svcStopped = FALSE
  /\ sdTimedOut = FALSE
  /\ recv = [o \in Chans |-> <<>>]
  /\ closed = [o \in Chans |-> FALSE]
  /\ terminals = 0
  /\ reg = [o \in Chans |-> "none"]
  /\ stimuli = 0
  /\ panicked = FALSE
  /\ signalAction = None

(* ------------------------------------------------------------------ *)
(* transition(ctx, to, allowedFromStates, cause)                       *)
(* ------------------------------------------------------------------ *)

\* Faulty variant of TransTo: the transition that ends ShutdownCtx does what
\* the comment above it says ("Transition to Started").
TransToAsCommented(p) ==
  CASE p = "sb_begin"   -> Starting
    [] p = "sb_started" -> Started
    [] p = "run_stop"   -> Stopped
    [] p = "sd_begin"   -> ShuttingDown
    [] p = "sd_stop"    -> Started
    [] p = "tm_begin"   -> Terminating
    [] p = "tm_stop"    -> Stopped
    [] p = "he_trans"   -> Error

\* The call sites of transition(): the target state of each.
TransTo(p) ==
  CASE p = "sb_begin"   -> Starting
    [] p = "sb_started" -> Started
    [] p = "run_stop"   -> Stopped
    [] p = "sd_begin"   -> ShuttingDown
    [] p = "sd_stop"    -> Stopped
    [] p = "tm_begin"   -> Terminating
    [] p = "tm_stop"    -> Stopped
    [] p = "he_trans"   -> Error

\* Faulty variant of TransAllowed: handleError's Error transition is allowed
\* from Starting and Started only.
TransAllowedErrorEarly(p) ==
  CASE p = "sb_begin"   -> {Initial}
    [] p = "sb_started" -> {Starting}
    [] p = "run_stop"   -> {Starting, Started, ShuttingDown, Terminating}
    [] p = "sd_begin"   -> {Starting, Started}
    [] p = "sd_stop"    -> {ShuttingDown}
    [] p = "tm_begin"   -> {Starting, Started, ShuttingDown}
    [] p = "tm_stop"    -> {Terminating}
    [] p = "he_trans"   -> {Starting, Started}

\* Faulty variant of TransAllowed: the work runner's Stopped transition
\* passes no list of allowed states, so it is never rejected.
TransAllowedRunnerAny(p) ==
  CASE p = "sb_begin"   -> {Initial}
    [] p = "sb_started" -> {Starting}
    [] p = "run_stop"   -> {}
    [] p = "sd_begin"   -> {Starting, Started}
    [] p = "sd_stop"    -> {ShuttingDown}
    [] p = "tm_begin"   -> {Starting, Started, ShuttingDown}
    [] p = "tm_stop"    -> {Terminating}
    [] p = "he_trans"   -> {Starting, Started, ShuttingDown, Terminating}

\* The call sites of transition(): the allowed source states of each.
\* Faulty variant of TransAllowed: the work runner stops the worker only
\* when no Shutdown or Terminate is under way.
TransAllowedRunnerEarly(p) ==
  CASE p = "sb_begin"   -> {Initial}
    [] p = "sb_started" -> {Starting}
    [] p = "run_stop"   -> {Starting, Started}
    [] p = "sd_begin"   -> {Starting, Started}
    [] p = "sd_stop"    -> {ShuttingDown}
    [] p = "tm_begin"   -> {Starting, Started, ShuttingDown}
    [] p = "tm_stop"    -> {Terminating}
    [] p = "he_trans"   -> {Starting, Started, ShuttingDown, Terminating}

\* Faulty variant of TransAllowed: ShutdownCtx may begin again while the
\* worker is ShuttingDown.
TransAllowedShutdownAgain(p) ==
  CASE p = "sb_begin"   -> {Initial}
    [] p = "sb_started" -> {Starting}
    [] p = "run_stop"   -> {Starting, Started, ShuttingDown, Terminating}
    [] p = "sd_begin"   -> {Starting, Started, ShuttingDown}
    [] p = "sd_stop"    -> {ShuttingDown}
    [] p = "tm_begin"   -> {Starting, Started, ShuttingDown}
    [] p = "tm_stop"    -> {Terminating}
    [] p = "he_trans"   -> {Starting, Started, ShuttingDown, Terminating}

TransAllowed(p) ==
  CASE p = "sb_begin"   -> {Initial}
    [] p = "sb_started" -> {Starting}
    [] p = "run_stop"   -> {Starting, Started, ShuttingDown, Terminating}
    [] p = "sd_begin"   -> {Starting, Started}
    [] p = "sd_stop"    -> {ShuttingDown}
    [] p = "tm_begin"   -> {Starting, Started, ShuttingDown}
    [] p = "tm_stop"    -> {Terminating}
    [] p = "he_trans"   -> {Starting, Started, ShuttingDown, Terminating}

TransPcs == {"sb_begin", "sb_started", "run_stop", "sd_begin", "sd_stop",
             "tm_begin", "tm_stop", "he_trans"}

\* Where thread t stands.  An idle caller stands at the first statement of
\* the public function it calls: the transition that guards it.
Site(t) ==
  IF pc[t] # "idle" THEN pc[t]
  ELSE IF t \in StartCallers THEN "sb_begin"
  ELSE IF t \in ShutdownCallers THEN "sd_begin"
  ELSE "tm_begin"

\* The cause passed to transition(): only handleError passes one.
TransCause(t) == IF Site(t) = "he_trans" THEN err[t] ELSE Nil

\* Faulty variant of HandleErrorPc: the nil that the Error hook returns is
\* not looked at.
HandleErrorPcNoFilter(e) ==
  IF e = Nil \/ IsInterrupted(e) THEN "return" ELSE "he_trans"

\* handleError(ctx, e) up to its transition, as the position it leaves a
\* thread in and the value it returns there: nil input and a nil result of
\* the Error hook return nil, an Interrupted error is returned without a
\* transition, any other error goes on to transition(Error, ...).
HandleErrorPc(e) ==
  IF e = Nil \/ ErrorHook(e) = Nil \/ IsInterrupted(ErrorHook(e))
  THEN "return" ELSE "he_trans"

HandleErrorValue(e) == IF e = Nil THEN Nil ELSE ErrorHook(e)

\* The position of thread t after a public call (or handleError) returned r
\* to it.  The work runner goes on to its Stopped transition; the signal
\* watcher is finished once it has handed r to the goroutine of
\* "go c.handleError(ctx, c.Shutdown())", thread sigh.
ReturnPc(t, r) ==
  CASE t = "runner"  -> [pc EXCEPT ![t] = "run_stop"]
    [] t = "watcher" -> [pc EXCEPT ![t] = "done",
                                   !["sigh"] = IF HandleErrorPc(r) = "return"
                                               THEN "done" ELSE "he_trans"]
    [] OTHER         -> [pc EXCEPT ![t] = "done"]

ReturnErr(t, r) ==
  IF t = "watcher"
  THEN [err EXCEPT ![t] = Nil,
                   !["sigh"] = IF HandleErrorPc(r) = "return"
                               THEN Nil ELSE HandleErrorValue(r)]
  ELSE [err EXCEPT ![t] = Nil]

ReturnRet(t, r) ==
  IF t \in {"runner", "sigh"} THEN ret ELSE [ret EXCEPT ![t] = r]

Return(t, r) ==
  /\ pc' = ReturnPc(t, r)
  /\ err' = ReturnErr(t, r)
  /\ ret' = ReturnRet(t, r)

\* How a hook that returned e has ended, as far as the worker is concerned.
HookOutcome(e) ==
  IF e = Nil THEN "returned"
  ELSE IF HandleErrorPc(e) = "return" THEN "suppressed" ELSE "failed"

\* Thread t calls handleError(ctx, e) and returns its result.
HandleError(t, e) ==
  IF HandleErrorPc(e) = "return"
  THEN Return(t, HandleErrorValue(e))
  ELSE /\ pc' = [pc EXCEPT ![t] = "he_trans"]
       /\ err' = [err EXCEPT ![t] = HandleErrorValue(e)]
       /\ UNCHANGED ret

\* Faulty variant of AfterTransition: TerminateCtx drops the error of its
\* first transition and returns nil.
AfterTransitionSwallow(t, ok) ==
  LET p == Site(t) IN
  CASE p = "sb_begin" ->
         IF ok
         THEN /\ pc' = [pc EXCEPT ![t] = "sb_wait", !["runner"] = "run_hook",
                                  !["detector"] = "det_wait", !["watcher"] = "w_wait"]
              /\ startHook' = "running"
              /\ UNCHANGED <<err, ret, sdHook, tmHook>>
         ELSE Return(t, errInvalidState) /\ UNCHANGED <<startHook, sdHook, tmHook>>
    [] p = "sb_started" ->
         Return(t, Nil) /\ UNCHANGED <<startHook, sdHook, tmHook>>
    [] p = "run_stop" ->
         /\ pc' = [pc EXCEPT ![t] = "run_unblock"]
         /\ UNCHANGED <<err, ret, startHook, sdHook, tmHook>>
    [] p = "sd_begin" ->
         IF ok
         THEN /\ pc' = [pc EXCEPT ![t] = "sd_wait"]
              /\ sdHook' = "running"
              /\ UNCHANGED <<err, ret, startHook, tmHook>>
         ELSE Return(t, errInvalidState) /\ UNCHANGED <<startHook, sdHook, tmHook>>
    [] p = "sd_stop" ->
         Return(t, Nil) /\ UNCHANGED <<startHook, sdHook, tmHook>>
    [] p = "tm_begin" ->
         IF ok
         THEN /\ pc' = [pc EXCEPT ![t] = "tm_hook"]
              /\ tmHook' = "running"
              /\ UNCHANGED <<err, ret, startHook, sdHook>>
         ELSE Return(t, Nil) /\ UNCHANGED <<startHook, sdHook, tmHook>>
    [] p = "tm_stop" ->
         /\ pc' = [pc EXCEPT ![t] = "tm_unblock"]
         /\ UNCHANGED <<err, ret, startHook, sdHook, tmHook>>
    [] p = "he_trans" ->
         /\ pc' = [pc EXCEPT ![t] = "he_unblock"]
         /\ UNCHANGED <<err, ret, startHook, sdHook, tmHook>>

\* What the caller of transition() does with its result (ok: no error).
AfterTransition(t, ok) ==
  LET p == Site(t) IN
  CASE p = "sb_begin" ->
         IF ok
         THEN /\ pc' = [pc EXCEPT ![t] = "sb_wait", !["runner"] = "run_hook",
                                  !["detector"] = "det_wait", !["watcher"] = "w_wait"]
              /\ startHook' = "running"
              /\ UNCHANGED <<err, ret, sdHook, tmHook>>
         ELSE Return(t, errInvalidState) /\ UNCHANGED <<startHook, sdHook, tmHook>>
    [] p = "sb_started" ->
         Return(t, Nil) /\ UNCHANGED <<startHook, sdHook, tmHook>>
    [] p = "run_stop" ->
         /\ pc' = [pc EXCEPT ![t] = "run_unblock"]
         /\ UNCHANGED <<err, ret, startHook, sdHook, tmHook>>
    [] p = "sd_begin" ->
         IF ok
         THEN /\ pc' = [pc EXCEPT ![t] = "sd_wait"]
              /\ sdHook' = "running"
              /\ UNCHANGED <<err, ret, startHook, tmHook>>
         ELSE Return(t, errInvalidState) /\ UNCHANGED <<startHook, sdHook, tmHook>>
    [] p = "sd_stop" ->
         Return(t, Nil) /\ UNCHANGED <<startHook, sdHook, tmHook>>
    [] p = "tm_begin" ->
         IF ok
         THEN /\ pc' = [pc EXCEPT ![t] = "tm_hook"]
              /\ tmHook' = "running"
              /\ UNCHANGED <<err, ret, startHook, sdHook>>
         ELSE Return(t, errInvalidState) /\ UNCHANGED <<startHook, sdHook, tmHook>>
    [] p = "tm_stop" ->
         /\ pc' = [pc EXCEPT ![t] = "tm_unblock"]
         /\ UNCHANGED <<err, ret, startHook, sdHook, tmHook>>
    [] p = "he_trans" ->
         /\ pc' = [pc EXCEPT ![t] = "he_unblock"]
         /\ UNCHANGED <<err, ret, startHook, sdHook, tmHook>>

\* The environment may still apply a stimulus.  Callers of the same function
\* are interchangeable, so the second one of each kind acts after the first.
CanStimulate == stimuli < MaxStimuli

CanCall(t) ==
  /\ CanStimulate
  /\ t = "st2" => pc["st1"] # "idle"
  /\ t = "sd2" => pc["sd1"] # "idle"

\* Faulty variant of TransitionEnter: ShutdownCtx keeps the lock while its
\* hook runs, so that nobody enters transition() meanwhile.
TransitionEnterHookLocked(t) ==
  /\ ~panicked
  /\ sdHook # "running"
  /\ Site(t) \in TransPcs
  /\ cs = NoCS
  /\ IF pc[t] = "idle"
     THEN CanCall(t) /\ stimuli' = stimuli + 1
     ELSE UNCHANGED stimuli
  /\ LET to      == TransTo(Site(t))
         allowed == TransAllowed(Site(t))
         cause   == TransCause(t)
         current == state
     IN IF allowed # {} /\ ~isStateOneOf(allowed)
        THEN /\ AfterTransition(t, FALSE)
             /\ UNCHANGED shared
        ELSE /\ state' = to
             /\ terminals' = IF to \in Terminal THEN terminals + 1 ELSE terminals
             /\ UNCHANGED <<recv, closed, panicked>>
             /\ IF observers = <<>>
                THEN /\ AfterTransition(t, TRUE)
                     /\ UNCHANGED <<observers, cs>>
                ELSE /\ cs' = [owner |-> t, idx |-> 1,
                               ev |-> Event(current, to, cause),
                               final |-> isFinalState(to, cause)]
                     /\ pc' = [pc EXCEPT ![t] = Site(t)]
                     /\ UNCHANGED <<observers, err, ret, startHook, sdHook, tmHook>>
  /\ UNCHANGED <<sigs, env, reg, config>>

\* transition(), from c.mut.Lock() to the first channel send (or to the
\* return when nothing is to be sent).
TransitionEnter(t) ==
  /\ ~panicked
  /\ Site(t) \in TransPcs
  /\ cs = NoCS
  /\ IF pc[t] = "idle"
     THEN CanCall(t) /\ stimuli' = stimuli + 1
     ELSE UNCHANGED stimuli
  /\ LET to      == TransTo(Site(t))
         allowed == TransAllowed(Site(t))
         cause   == TransCause(t)
         current == state
     IN IF allowed # {} /\ ~isStateOneOf(allowed)
        THEN /\ AfterTransition(t, FALSE)
             /\ UNCHANGED shared
        ELSE /\ state' = to
             /\ terminals' = IF to \in Terminal THEN terminals + 1 ELSE terminals
             /\ UNCHANGED <<recv, closed, panicked>>
             /\ IF observers = <<>>
                THEN /\ AfterTransition(t, TRUE)
                     /\ UNCHANGED <<observers, cs>>
                ELSE /\ cs' = [owner |-> t, idx |-> 1,
                               ev |-> Event(current, to, cause),
                               final |-> isFinalState(to, cause)]
                     /\ pc' = [pc EXCEPT ![t] = Site(t)]
                     /\ UNCHANGED <<observers, err, ret, startHook, sdHook, tmHook>>
  /\ UNCHANGED <<sigs, env, reg, config>>

\* Faulty variant of unblockWaiters: close(c.done) without the Once.
unblockWaitersNoOnce == unlockOnce' = TRUE /\ done' = done + 1

\* Faulty variant of unblockWaiters: the Once runs but nothing is closed.
unblockWaitersNoClose == unlockOnce' = TRUE /\ UNCHANGED done

\* unblockWaiters: c.unlockOnce.Do(func() { close(c.done) })
unblockWaiters ==
  IF unlockOnce
  THEN UNCHANGED <<unlockOnce, done>>
  ELSE unlockOnce' = TRUE /\ done' = done + 1

\* Faulty variant of Deliver: the registry is not cleared after a final
\* event.
DeliverNoClear(t) ==
  /\ ~panicked
  /\ cs.owner = t
  /\ LET o == observers[cs.idx] IN
     IF closed[o]
     THEN /\ panicked' = TRUE
          /\ IF t = "runner" THEN unblockWaiters ELSE UNCHANGED <<unlockOnce, done>>
          /\ UNCHANGED <<state, observers, cs, recv, closed, terminals, ctl>>
     ELSE /\ recv' = [recv EXCEPT ![o] = Append(@, cs.ev)]
          /\ closed' = [closed EXCEPT ![o] = cs.final]
          /\ UNCHANGED <<state, terminals, panicked, unlockOnce, done>>
          /\ IF cs.idx = Len(observers)
             THEN /\ observers' = observers
                  /\ cs' = NoCS
                  /\ AfterTransition(t, TRUE)
             ELSE /\ cs' = [cs EXCEPT !.idx = @ + 1]
                  /\ UNCHANGED <<observers, ctl>>
  /\ UNCHANGED <<ready, env, obsapi, config>>

\* One iteration of "for _, observer := range c.observers": the blocking send
\* (completed by the observer receiving), the close when the event is final,
\* and after the last iteration the clearing of the registry and the unlock.
\* A send on a channel the worker has already closed panics; in the work
\* runner the panic runs the deferred unblockWaiters on its way out.
Deliver(t) ==
  /\ ~panicked
  /\ cs.owner = t
  /\ LET o == observers[cs.idx] IN
     IF closed[o]
     THEN /\ panicked' = TRUE
          /\ IF t = "runner" THEN unblockWaiters ELSE UNCHANGED <<unlockOnce, done>>
          /\ UNCHANGED <<state, observers, cs, recv, closed, terminals, ctl>>
     ELSE /\ recv' = [recv EXCEPT ![o] = Append(@, cs.ev)]
          /\ closed' = [closed EXCEPT ![o] = cs.final]
          /\ UNCHANGED <<state, terminals, panicked, unlockOnce, done>>
          /\ IF cs.idx = Len(observers)
             THEN /\ observers' = IF cs.final THEN <<>> ELSE observers
                  /\ cs' = NoCS
                  /\ AfterTransition(t, TRUE)
             ELSE /\ cs' = [cs EXCEPT !.idx = @ + 1]
                  /\ UNCHANGED <<observers, ctl>>
  /\ UNCHANGED <<ready, env, obsapi, config>>

(* ------------------------------------------------------------------ *)
(* Signals                                                            *)
(* ------------------------------------------------------------------ *)

\* Faulty variant of Unblock: TerminateCtx returns without calling
\* unblockWaiters.
UnblockNotInTerminate(t) ==
  /\ ~panicked
  /\ pc[t] \in {"run_unblock", "tm_unblock", "he_unblock"}
  /\ IF pc[t] = "tm_unblock" THEN UNCHANGED <<unlockOnce, done>> ELSE unblockWaiters
  /\ CASE pc[t] = "run_unblock" ->
            pc' = [pc EXCEPT ![t] = "done"] /\ UNCHANGED <<err, ret>>
       [] pc[t] = "tm_unblock" -> Return(t, Nil)
       [] pc[t] = "he_unblock" -> Return(t, err[t])
  /\ UNCHANGED <<shared, ready, startHook, sdHook, tmHook, env, obsapi, config>>

\* Faulty variant of Unblock: the work runner ends without its deferred
\* unblockWaiters.
UnblockNotInRunner(t) ==
  /\ ~panicked
  /\ pc[t] \in {"run_unblock", "tm_unblock", "he_unblock"}
  /\ IF pc[t] = "run_unblock" THEN UNCHANGED <<unlockOnce, done>> ELSE unblockWaiters
  /\ CASE pc[t] = "run_unblock" ->
            pc' = [pc EXCEPT ![t] = "done"] /\ UNCHANGED <<err, ret>>
       [] pc[t] = "tm_unblock" -> Return(t, Nil)
       [] pc[t] = "he_unblock" -> Return(t, err[t])
  /\ UNCHANGED <<shared, ready, startHook, sdHook, tmHook, env, obsapi, config>>

\* The three places that call unblockWaiters, and what follows each.
Unblock(t) ==
  /\ ~panicked
  /\ pc[t] \in {"run_unblock", "tm_unblock", "he_unblock"}
  /\ unblockWaiters
  /\ CASE pc[t] = "run_unblock" ->
            pc' = [pc EXCEPT ![t] = "done"] /\ UNCHANGED <<err, ret>>
       [] pc[t] = "tm_unblock" -> Return(t, Nil)
       [] pc[t] = "he_unblock" -> Return(t, err[t])
  /\ UNCHANGED <<shared, ready, startHook, sdHook, tmHook, env, obsapi, config>>

(* ------------------------------------------------------------------ *)
(* StartBackgroundCtx: work runner, readiness detector, caller         *)
(* ------------------------------------------------------------------ *)

\* hooks.Start returns e in the work runner; a non-nil e goes to handleError.
StartHookReturn(e) ==
  /\ ~panicked
  /\ pc["runner"] = "run_hook"
  /\ startHook = "running"
  /\ startHook' = IF HookOutcome(e) = "failed" THEN "failed" ELSE "returned"
  /\ HandleError("runner", e)
  /\ UNCHANGED <<shared, sigs, sdHook, tmHook, env, obsapi, config>>

\* The service ends on its own accord.
StartHookExit == ~svcStopped /\ \E e \in StartResults : StartHookReturn(e)

\* The service ends because a shutdown or terminate hook stopped it.
StartHookStopped == svcStopped /\ \E e \in StartResults : StartHookReturn(e)

\* Faulty variant of StartReady: close(c.ready) comes before the look at the
\* error.
StartReadyCloseFirst(t, e) ==
  /\ pc[t] = "sb_wait"
  /\ pc["detector"] = "det_wait"
  /\ ready' = ready + 1
  /\ IF e # Nil
     THEN IF HandleErrorPc(e) = "return"
          THEN /\ pc' = [ReturnPc(t, HandleErrorValue(e)) EXCEPT !["detector"] = "done"]
               /\ err' = ReturnErr(t, HandleErrorValue(e))
               /\ ret' = ReturnRet(t, HandleErrorValue(e))
          ELSE /\ pc' = [pc EXCEPT ![t] = "he_trans", !["detector"] = "done"]
               /\ err' = [err EXCEPT ![t] = HandleErrorValue(e)]
               /\ UNCHANGED ret
     ELSE /\ pc' = [pc EXCEPT ![t] = "sb_started", !["detector"] = "done"]
          /\ UNCHANGED <<err, ret>>
  /\ UNCHANGED <<shared, unlockOnce, done, startHook, sdHook, tmHook,
                 env, obsapi, config>>

\* The caller of StartBackgroundCtx receives e from the readiness goroutine
\* (err := <-ready).  A non-nil e goes to handleError, whose result is
\* returned; otherwise close(c.ready) and on to the Started transition.
StartReady(t, e) ==
  /\ pc[t] = "sb_wait"
  /\ pc["detector"] = "det_wait"
  /\ IF e # Nil
     THEN /\ IF HandleErrorPc(e) = "return"
             THEN /\ pc' = [ReturnPc(t, HandleErrorValue(e)) EXCEPT !["detector"] = "done"]
                  /\ err' = ReturnErr(t, HandleErrorValue(e))
                  /\ ret' = ReturnRet(t, HandleErrorValue(e))
             ELSE /\ pc' = [pc EXCEPT ![t] = "he_trans", !["detector"] = "done"]
                  /\ err' = [err EXCEPT ![t] = HandleErrorValue(e)]
                  /\ UNCHANGED ret
          /\ UNCHANGED ready
     ELSE /\ ready' = ready + 1
          /\ pc' = [pc EXCEPT ![t] = "sb_started", !["detector"] = "done"]
          /\ UNCHANGED <<err, ret>>
  /\ UNCHANGED <<shared, unlockOnce, done, startHook, sdHook, tmHook,
                 env, obsapi, config>>

\* Readiness goroutine without a probe (c.opts.ReadinessProbe == nil):
\* close(ready) at once.
DetectorNoProbe ==
  /\ ~panicked
  /\ \E t \in StartCallers : StartReady(t, Nil)

\* case err := <-c.opts.ReadinessProbe(): ready <- err
ProbeResult(e) ==
  /\ ~panicked
  /\ \E t \in StartCallers : StartReady(t, e)

\* case <-c.done: the readiness wait is abandoned, ready is closed.
ProbeInterrupted ==
  /\ ~panicked
  /\ done > 0
  /\ \E t \in StartCallers : StartReady(t, Nil)

(* ------------------------------------------------------------------ *)
(* Signal watcher                                                     *)
(* ------------------------------------------------------------------ *)

\* Faulty variant of SignalSite: every signal terminates.
SignalSiteTerminate(a) == "tm_begin"

\* What the watcher calls on a signal:
\* if c.opts.SignalAction == Shutdown { Shutdown } else { Terminate }
SignalSite(a) == IF a = ActShutdown THEN "sd_begin" ELSE "tm_begin"

\* case sig := <-sc, with the worker constructed with SignalAction a.
Signal(a) ==
  /\ ~panicked
  /\ pc["watcher"] = "w_wait"
  /\ CanStimulate
  /\ stimuli' = stimuli + 1
  /\ signalAction' = NormalizeAction(a)
  /\ pc' = [pc EXCEPT !["watcher"] = SignalSite(NormalizeAction(a))]
  /\ UNCHANGED <<shared, sigs, err, ret, startHook, sdHook, tmHook,
                 svcStopped, sdTimedOut, reg>>

\* case <-c.done: the watcher leaves without acting.
WatcherDone ==
  /\ ~panicked
  /\ pc["watcher"] = "w_wait"
  /\ done > 0
  /\ pc' = [pc EXCEPT !["watcher"] = "done"]
  /\ UNCHANGED <<shared, sigs, err, ret, startHook, sdHook, tmHook,
                 env, obsapi, config>>

(* ------------------------------------------------------------------ *)
(* ShutdownCtx                                                        *)
(* ------------------------------------------------------------------ *)

\* Faulty variant of ShutdownTimeout: on expiry ShutdownCtx returns nil
\* without terminating.
ShutdownTimeoutGiveUp(t) ==
  /\ ~panicked
  /\ pc[t] = "sd_wait"
  /\ sdTimedOut' = TRUE
  /\ Return(t, Nil)
  /\ UNCHANGED <<shared, sigs, startHook, sdHook, tmHook,
                 svcStopped, obsapi, config>>

\* Faulty variant of ShutdownTimeout: on expiry the terminate hook is called
\* at once, without the transition to Terminating.
ShutdownTimeoutNoTransition(t) ==
  /\ ~panicked
  /\ pc[t] = "sd_wait"
  /\ sdTimedOut' = TRUE
  /\ pc' = [pc EXCEPT ![t] = "tm_hook"]
  /\ tmHook' = "running"
  /\ UNCHANGED <<shared, sigs, err, ret, startHook, sdHook,
                 svcStopped, obsapi, config>>

\* case <-ctx.Done(): return c.TerminateCtx(ctx)
ShutdownTimeout(t) ==
  /\ ~panicked
  /\ pc[t] = "sd_wait"
  /\ sdTimedOut' = TRUE
  /\ pc' = [pc EXCEPT ![t] = "tm_begin"]
  /\ UNCHANGED <<shared, sigs, err, ret, startHook, sdHook, tmHook,
                 svcStopped, obsapi, config>>

\* Faulty variant of ShutdownResult: after an error that handleError drops,
\* ShutdownCtx goes on to its Stopped transition.
ShutdownResultGoesOn(t, e) ==
  /\ ~panicked
  /\ pc[t] = "sd_wait"
  /\ sdHook = "running"
  /\ sdHook' = HookOutcome(e)
  /\ svcStopped' = (svcStopped \/ e = Nil)
  /\ IF e # Nil /\ HandleErrorPc(e) # "return"
     THEN HandleError(t, e)
     ELSE /\ pc' = [pc EXCEPT ![t] = "sd_stop"]
          /\ UNCHANGED <<err, ret>>
  /\ UNCHANGED <<shared, sigs, startHook, tmHook, sdTimedOut,
                 obsapi, config>>

\* hooks.Shutdown returns e and ShutdownCtx receives it
\* (case err = <-gracefulTermination): a non-nil e goes to handleError,
\* otherwise on to the Stopped transition.
ShutdownResult(t, e) ==
  /\ ~panicked
  /\ pc[t] = "sd_wait"
  /\ sdHook = "running"
  /\ sdHook' = HookOutcome(e)
  /\ svcStopped' = (svcStopped \/ e = Nil)
  /\ IF e # Nil
     THEN HandleError(t, e)
     ELSE /\ pc' = [pc EXCEPT ![t] = "sd_stop"]
          /\ UNCHANGED <<err, ret>>
  /\ UNCHANGED <<shared, sigs, startHook, tmHook, sdTimedOut,
                 obsapi, config>>

\* hooks.Shutdown returns e after ShutdownCtx has left its select: nobody
\* receives from gracefulTermination any more.
ShutdownHookLate(e) ==
  /\ ~panicked
  /\ sdHook = "running"
  /\ \A t \in Threads : pc[t] # "sd_wait"
  /\ sdHook' = "late"
  /\ svcStopped' = (svcStopped \/ e = Nil)
  /\ UNCHANGED <<shared, sigs, pc, err, ret, startHook, tmHook,
                 sdTimedOut, obsapi, config>>

(* ------------------------------------------------------------------ *)
(* TerminateCtx                                                       *)
(* ------------------------------------------------------------------ *)

\* hooks.Terminate returns e to the thread that called TerminateCtx: a
\* non-nil e goes to handleError, otherwise on to the Stopped transition.
TerminateHookReturn(t, e) ==
  /\ ~panicked
  /\ pc[t] = "tm_hook"
  /\ tmHook' = HookOutcome(e)
  /\ svcStopped' = (svcStopped \/ e = Nil)
  /\ IF e # Nil
     THEN HandleError(t, e)
     ELSE /\ pc' = [pc EXCEPT ![t] = "tm_stop"]
          /\ UNCHANGED <<err, ret>>
  /\ UNCHANGED <<shared, sigs, startHook, sdHook, sdTimedOut,
                 obsapi, config>>

(* ------------------------------------------------------------------ *)
(* Observe / Unobserve                                                *)
(* ------------------------------------------------------------------ *)

\* Faulty variant of Observe: the append is done without taking the lock.
ObserveNoLock(o) ==
  /\ ~panicked
  /\ CanStimulate
  /\ o = "o2" => reg["o1"] # "none"
  /\ stimuli' = stimuli + 1
  /\ observers' = Append(observers, o)
  /\ reg' = [reg EXCEPT ![o] = IF @ = "none"
                               THEN (IF state = Initial THEN "early" ELSE "late")
                               ELSE "other"]
  /\ UNCHANGED <<state, cs, recv, closed, terminals, panicked, sigs, ctl,
                 env, config>>

\* Observe(ch): append under the lock.  Channels are interchangeable, so the
\* first one registered is o1.
Observe(o) ==
  /\ ~panicked
  /\ cs = NoCS
  /\ CanStimulate
  /\ o = "o2" => reg["o1"] # "none"
  /\ stimuli' = stimuli + 1
  /\ observers' = Append(observers, o)
  /\ reg' = [reg EXCEPT ![o] = IF @ = "none"
                               THEN (IF state = Initial THEN "early" ELSE "late")
                               ELSE "other"]
  /\ UNCHANGED <<state, cs, recv, closed, terminals, panicked, sigs, ctl,
                 env, config>>

\* Unobserve(ch): remove the first occurrence under the lock.
Unobserve(o) ==
  /\ ~panicked
  /\ cs = NoCS
  /\ CanStimulate
  /\ stimuli' = stimuli + 1
  /\ observers' = RemoveFirst(observers, o)
  /\ reg' = [reg EXCEPT ![o] = IF InSeq(observers, o) THEN "other" ELSE @]
  /\ UNCHANGED <<state, cs, recv, closed, terminals, panicked, sigs, ctl,
                 env, config>>

(* ------------------------------------------------------------------ *)
(* Specification                                                      *)
(* ------------------------------------------------------------------ *)

Next ==
  \/ \E t \in Threads : TransitionEnter(t)
  \/ \E t \in Threads : Deliver(t)
  \/ \E t \in Threads : Unblock(t)
  \/ StartHookExit
  \/ StartHookStopped
  \/ DetectorNoProbe
  \/ \E e \in HookResults : ProbeResult(e)
  \/ ProbeInterrupted
  \/ \E a \in {ActUndefined, ActDoNothing, ActShutdown, ActTerminate} : Signal(a)
  \/ WatcherDone
  \/ \E t \in ShutdownCallers \cup SignalThreads : ShutdownTimeout(t)
  \/ \E t \in ShutdownCallers \cup SignalThreads, e \in HookResults : ShutdownResult(t, e)
  \/ \E e \in HookResults : ShutdownHookLate(e)
  \/ \E t \in Threads, e \in HookResults : TerminateHookReturn(t, e)
  \/ \E o \in Chans : Observe(o)
  \/ \E o \in Chans : Unobserve(o)

Spec == Init /\ [][Next]_vars

\* The worker after construction and one Observe(o1): the runs in which an
\* observer watches from the beginning.
ObservedInit ==
  /\ state = Initial
  /\ observers = <<"o1">>
  /\ cs = NoCS
  /\ unlockOnce = FALSE
  /\ done = 0
  /\ ready = 0
  /\ pc = [t \in Threads |-> IF t \in Callers THEN "idle" ELSE "off"]
  /\ err = [t \in Threads |-> Nil]
  /\ ret = [t \in Threads |-> None]
  /\ startHook = "idle"
  /\ sdHook = "idle"
  /\ tmHook = "idle"
  /\ svcStopped = FALSE
  /\ sdTimedOut = FALSE
  /\ recv = [o \in Chans |-> <<>>]
  /\ closed = [o \in Chans |-> FALSE]
  /\ terminals = 0
  /\ reg = [o \in Chans |-> IF o = "o1" THEN "early" ELSE "none"]
  /\ stimuli = 0
  /\ panicked = FALSE
  /\ signalAction = None

ObservedSpec == ObservedInit /\ [][Next]_vars

\* The steps the worker takes by itself once it can: a thread that is inside
\* a public function or a goroutine goes on, an observer receives what is sent
\* to it, the shutdown timer expires, the terminate hook returns ("expected
\* to quickly terminate the service"), and the start hook returns once a
\* shutdown or terminate hook has stopped the service.  Not among them: new
\* calls and signals, the start hook ending by itself, the shutdown hook
\* returning (it may hang) and the readiness probe answering.
Internal ==
  \/ \E t \in Threads : pc[t] # "idle" /\ TransitionEnter(t)
  \/ \E t \in Threads : Deliver(t)
  \/ \E t \in Threads : Unblock(t)
  \/ StartHookStopped
  \/ ProbeInterrupted
  \/ WatcherDone
  \/ \E t \in ShutdownCallers \cup SignalThreads : ShutdownTimeout(t)
  \/ \E t \in Threads, e \in HookResults : TerminateHookReturn(t, e)

\* The scheduler runs every goroutine that can take a step.
LiveSpec == Init /\ [][Next]_vars /\ WF_vars(Internal)

\* Nothing is left for the worker to do by itself.
Quiescent == ~ENABLED Internal

(* ------------------------------------------------------------------ *)
(* Properties                                                         *)
(* ------------------------------------------------------------------ *)

\* The edges of the state machine drawn in state.go.
LegalEdges ==
  {<<Initial, Starting>>}
  \cup ({Starting} \X {Started, ShuttingDown, Terminating, Stopped, Error})
  \cup ({Started} \X {ShuttingDown, Terminating, Stopped, Error})
  \cup ({ShuttingDown} \X {Terminating, Stopped, Error})
  \cup ({Terminating} \X {Stopped, Error})

\* C1: every change of the state follows a legal edge; Stopped and Error are
\* never left, and at most one transition into a terminal state succeeds.
C1_LegalEdges ==
  [][ /\ state' # state => <<state, state'>> \in LegalEdges
      /\ state \in Terminal => state' = state
      /\ terminals' <= 1 ]_vars

\* C1 witness: the worker is in Error and the work runner, whose Stopped
\* transition came too late, has finished.
C1_Witness == state = Error /\ terminals = 1 /\ pc["runner"] = "done"

\* C2: close(c.done) is executed at most once, exactly when unlockOnce has
\* run, and a thread that stands at unblockWaiters can always take that step
\* (it does not block on a firer that came first).
C2_DoneOnce ==
  /\ done <= 1
  /\ unlockOnce <=> done = 1
  /\ \A t \in Threads :
       (~panicked /\ pc[t] \in {"run_unblock", "tm_unblock", "he_unblock"})
          => ENABLED Unblock(t)

\* C2 witness: two firers have both gone through unblockWaiters: the work
\* runner and a Terminate call that returned nil.
C2_Witness ==
  /\ done = 1
  /\ pc["runner"] = "done"
  /\ ret["tm1"] = Nil

\* A Shutdown or a Terminate has begun: its first transition succeeded.
StopBegun == sdHook # "idle" \/ tmHook # "idle"

\* done has fired and the state is final.
Finished == done = 1 /\ state \in Terminal

\* The worker stays where a shutdown or terminate hook left it, because the
\* Error hook suppressed the error that hook returned.
Parked ==
  \/ state = ShuttingDown /\ sdHook = "suppressed"
  \/ state = Terminating /\ tmHook = "suppressed"

ShutdownLeft(t) == pc[t] \in {"idle", "done", "w_wait", "off"}

Rejected(t) ==
  /\ ~panicked
  /\ cs = NoCS
  /\ Site(t) \in TransPcs
  /\ state \notin TransAllowed(Site(t))
  /\ pc'[t] # pc[t]

\* C4: a rejected transition changes neither the state nor the registry and
\* delivers nothing; rejected at the head of StartBackground, Shutdown or
\* Terminate it makes the call return Invalid-State with no hook invoked and,
\* for StartBackground, none of the three goroutines spawned.
C4_RejectedNoEffect ==
  [][ \A t \in Threads : Rejected(t) =>
        /\ state' = state /\ observers' = observers /\ cs' = NoCS
        /\ recv' = recv /\ closed' = closed
        /\ Site(t) \in {"sb_begin", "sd_begin", "tm_begin"} =>
             /\ ret'[t] = errInvalidState
             /\ startHook' = startHook /\ sdHook' = sdHook /\ tmHook' = tmHook
        /\ Site(t) = "sb_begin" =>
             \A g \in {"runner", "detector", "watcher"} : pc'[g] = pc[g] ]_vars

\* C4 witness: a second StartBackground was rejected while an observer is
\* registered.
C4_Witness == ret["st2"] = errInvalidState /\ Len(observers) > 0

Last(s) == s[Len(s)]

\* How many of the events in s lead into a terminal state.
TerminalEvents(s) == Cardinality({i \in 1..Len(s) : s[i].to \in Terminal})

C6_OrderedDelivery ==
  \A o \in Chans : reg[o] = "early" =>
    LET r == recv[o] IN
    /\ r # <<>> => (r[1].from = Initial /\ r[1].to = Starting)
    /\ \A i \in 2..Len(r) : r[i].from = r[i-1].to
    /\ \A i \in 1..(Len(r) - 1) : r[i].to \notin Terminal
    /\ closed[o] <=> (r # <<>> /\ Last(r).to \in Terminal)
    /\ (cs = NoCS /\ ~panicked) =>
          (IF r = <<>> THEN state = Initial ELSE Last(r).to = state)

\* C6 witness: such a channel has received three events or more and has been
\* closed.
C6_Witness == reg["o1"] = "early" /\ closed["o1"] /\ Len(recv["o1"]) >= 3

\* C7 as stated: close(c.ready) is executed at most once, only while the
\* state is Starting, and the Started transition that follows it succeeds.
C7_ReadyOnlyOnStarted ==
  [][ /\ ready' # ready => (ready' = 1 /\ state = Starting)
      /\ \A t \in StartCallers :
           (pc[t] = "sb_started" /\ pc'[t] = "done") => state' = Started ]_vars

\* C8 as stated: no transition has an Invalid-State error as its cause, and
\* no event that an observer receives carries one.
C8_InvalidNeverBroadcast ==
  [][ /\ \A t \in Threads :
           (pc[t] = "he_trans" /\ err[t] = errInvalidState /\ cs = NoCS
              /\ (pc'[t] # pc[t] \/ cs'.owner = t)) => state' = state
      /\ \A o \in Chans : \A i \in 1..Len(recv'[o]) :
           recv'[o][i].err # errInvalidState ]_vars

\* The To states of the events channel o has received, in order.
ToSeq(o) == [i \in 1..Len(recv[o]) |-> recv[o][i].to]

IsPrefix(s, t) == Len(s) <= Len(t) /\ \A i \in 1..Len(s) : s[i] = t[i]

RoundTrip == <<Starting, Started, ShuttingDown, Stopped>>

\* The round trip: channel o1 was registered before Start, no channel was
\* registered twice or unregistered, the Shutdown began in Started, its hook
\* returned nil before the timeout, and nothing else interfered: no
\* Terminate, no signal, no failure of the start hook.
RoundTripRun ==
  /\ reg["o1"] = "early"
  /\ \A o \in Chans : reg[o] # "other"
  /\ \E i \in 1..Len(recv["o1"]) : recv["o1"][i] = Event(Started, ShuttingDown, Nil)
  /\ sdHook = "returned"
  /\ ~sdTimedOut /\ tmHook = "idle" /\ signalAction = None
  /\ startHook # "failed"

\* C10: in the round trip the channel receives a prefix of [Starting,
\* Started, ShuttingDown, Stopped] and no Shutdown call returns an error other
\* than the Invalid-State of a rejected second call; when the worker has come
\* to rest the channel has received all four and is closed, a Shutdown call
\* has returned nil, and ready and done are closed.
C10_RoundTrip ==
  RoundTripRun =>
    /\ IsPrefix(ToSeq("o1"), RoundTrip)
    /\ TerminalEvents(recv["o1"]) <= 1
    /\ \A t \in ShutdownCallers : ret[t] \in {None, Nil, errInvalidState}
    /\ Quiescent =>
         /\ ToSeq("o1") = RoundTrip /\ closed["o1"]
         /\ \E t \in ShutdownCallers : ret[t] = Nil
         /\ state = Stopped /\ ready = 1 /\ done = 1

\* C10 witness: the round trip has come to rest.
C10_Witness ==
  /\ RoundTripRun /\ Quiescent
  /\ ToSeq("o1") = RoundTrip /\ ret["sd1"] = Nil /\ ready = 1 /\ done = 1

TimeoutTrip == <<Starting, Started, ShuttingDown, Terminating, Stopped>>

\* The Shutdown is an explicit call and the only stop request: no signal,
\* no Terminate call.
ExplicitShutdownOnly == signalAction = None /\ pc["tm1"] = "idle"

\* The Shutdown comes from the signal watcher and is the only stop request.
SignalShutdownOnly ==
  /\ signalAction = ActShutdown
  /\ pc["tm1"] = "idle"
  /\ \A t \in ShutdownCallers : pc[t] = "idle"

\* The escalated shutdown: channel o1 was registered before Start, no channel
\* was registered twice or unregistered, the Shutdown began in Started, the
\* timeout expired before its hook was heard, the terminate hook returned
\* nil, and the start hook did not fail.
TimeoutRun ==
  /\ reg["o1"] = "early"
  /\ \A o \in Chans : reg[o] # "other"
  /\ \E i \in 1..Len(recv["o1"]) : recv["o1"][i] = Event(Started, ShuttingDown, Nil)
  /\ sdTimedOut /\ tmHook = "returned"
  /\ startHook # "failed"
  /\ ExplicitShutdownOnly \/ SignalShutdownOnly

\* C11: in the escalated shutdown, by call or by signal, the channel receives
\* a prefix of [Starting, Started, ShuttingDown, Terminating, Stopped]; when
\* the worker has come to rest it has received all five and is closed, the
\* state is Stopped and the Shutdown that began has returned nil.
C11_TimeoutTrip ==
  TimeoutRun =>
    /\ IsPrefix(ToSeq("o1"), TimeoutTrip)
    /\ \A t \in ShutdownCallers \cup SignalThreads :
         ret[t] \in {None, Nil, errInvalidState}
    /\ Quiescent =>
         /\ ToSeq("o1") = TimeoutTrip /\ closed["o1"]
         /\ state = Stopped /\ done = 1
         /\ ExplicitShutdownOnly => \E t \in ShutdownCallers : ret[t] = Nil
         /\ SignalShutdownOnly => ret["watcher"] = Nil

\* C11 witness: the escalated shutdown, explicitly called, has come to rest.
C11_Witness ==
  /\ TimeoutRun /\ ExplicitShutdownOnly /\ Quiescent
  /\ ToSeq("o1") = TimeoutTrip /\ ret["sd1"] = Nil

TerminateTrip == <<Starting, Started, Terminating, Stopped>>

\* The forced stop: channel o1 was registered before Start, no channel was
\* registered twice or unregistered, Terminate was called in Started and is
\* the only stop request that was accepted or signalled, its hook returned
\* nil, and the start hook did not fail.
TerminateRun ==
  /\ reg["o1"] = "early"
  /\ \A o \in Chans : reg[o] # "other"
  /\ \E i \in 1..Len(recv["o1"]) : recv["o1"][i] = Event(Started, Terminating, Nil)
  /\ pc["tm1"] # "idle" /\ tmHook = "returned"
  /\ signalAction = None
  /\ startHook # "failed"

\* C12: in the forced stop the channel receives a prefix of [Starting,
\* Started, Terminating, Stopped] with at most one Stopped; Terminate returns
\* nothing but nil, and done is closed once it has returned; when the worker
\* has come to rest the channel has received all four and is closed, and
\* Terminate has returned.
C12_TerminateTrip ==
  TerminateRun =>
    /\ IsPrefix(ToSeq("o1"), TerminateTrip)
    /\ TerminalEvents(recv["o1"]) <= 1
    /\ ret["tm1"] # None => (ret["tm1"] = Nil /\ done = 1)
    /\ Quiescent =>
         /\ ToSeq("o1") = TerminateTrip /\ closed["o1"]
         /\ state = Stopped /\ ret["tm1"] = Nil

\* C12 witness: the forced stop has come to rest.
C12_Witness ==
  /\ TerminateRun /\ Quiescent
  /\ ToSeq("o1") = TerminateTrip /\ ret["tm1"] = Nil /\ done = 1

\* Thread t, inside handleError with an error that is neither suppressed
\* nor Interrupted, takes the step that enters transition(Error, ...).
ErrorStep(t) ==
  /\ pc[t] = "he_trans" /\ cs = NoCS
  /\ pc'[t] # pc[t] \/ cs'.owner = t

\* Some thread is inside handleError with such an error.
HandlingError == \E t \in Threads : pc[t] \in {"he_trans", "he_unblock"}

C13_ErrorUnlessFinal ==
  /\ [][ /\ \A t \in Threads : ErrorStep(t) =>
              IF state \in Terminal
              THEN state' = state /\ cs' = NoCS
              ELSE /\ state' = Error
                   /\ observers # <<>> => cs'.ev = Event(state, Error, err[t])
         /\ \A t \in Threads :
              (pc[t] = "he_unblock" /\ pc'[t] # pc[t]) =>
                 (done' = 1 /\ state' \in Terminal) ]_vars
  /\ [](HandlingError => <>(panicked \/ (Finished /\ ~HandlingError)))

StartExitRun ==
  /\ reg["o1"] = "early"
  /\ \A o \in Chans : reg[o] # "other"
  /\ \E i \in 1..Len(recv["o1"]) : recv["o1"][i] = Event(Starting, Started, Nil)
  /\ \A t \in ShutdownCallers \cup TerminateCallers : pc[t] = "idle"
  /\ signalAction = None
  /\ startHook \in {"returned", "failed"}

\* Where the service that ended by itself ends up.
StartExitTrip ==
  <<Starting, Started, IF startHook = "failed" THEN Error ELSE Stopped>>

\* C13, second part: when the service ends by itself while Started, the
\* channel receives a prefix of [Starting, Started, Error] if the start hook
\* failed and of [Starting, Started, Stopped] if it did not, and all of it
\* once the worker has come to rest.
C13_StartExit ==
  StartExitRun =>
    /\ IsPrefix(ToSeq("o1"), StartExitTrip)
    /\ Quiescent => (ToSeq("o1") = StartExitTrip /\ closed["o1"] /\ done = 1)

C13_StartFailed ==
  /\ StartExitRun /\ startHook = "failed" /\ Quiescent
  /\ ToSeq("o1") = <<Starting, Started, Error>>

\* The step in which a hook or the readiness probe hands handleError an error
\* and handleError returns without a transition: the shutdown and terminate
\* hooks with a suppressed error, the work runner and the caller of
\* StartBackgroundCtx with a suppressed (or Interrupted) one.  (The work
\* runner takes the same step when the start hook returns nil.)
SuppressedStep ==
  \/ sdHook = "running" /\ sdHook' = "suppressed"
  \/ tmHook = "running" /\ tmHook' = "suppressed"
  \/ pc["runner"] = "run_hook" /\ pc'["runner"] = "run_stop"
  \/ \E t \in StartCallers : pc[t] = "sb_wait" /\ pc'[t] = "done"

\* C14: a step in which handleError suppresses an error changes neither the
\* state nor done, delivers nothing, and returns nil to the caller; no thread
\* is ever inside handleError's transition with an error the Error hook
\* suppresses, and no event carries one; and a service whose start hook
\* returned without failing while Started, with no stop request, is seen to
\* go [Starting, Started, Stopped].
C14_Suppressed ==
  /\ [][ /\ SuppressedStep =>
              /\ state' = state /\ cs' = cs /\ recv' = recv /\ closed' = closed
              /\ done' = done /\ unlockOnce' = unlockOnce
              /\ \A t \in Callers :
                   (pc[t] \in {"sd_wait", "tm_hook", "sb_wait"} /\ pc'[t] # pc[t])
                     => (pc'[t] = "done" /\ ret'[t] = Nil)
              /\ pc'["sigh"] # pc["sigh"] => pc'["sigh"] = "done"
         /\ \A t \in Threads :
              pc'[t] \in {"he_trans", "he_unblock"} => ErrorHook(err'[t]) # Nil
         /\ \A o \in Chans : \A i \in 1..Len(recv'[o]) : recv'[o][i].err # errIgnore
       ]_vars
  /\ []((StartExitRun /\ startHook = "returned") =>
          /\ IsPrefix(ToSeq("o1"), <<Starting, Started, Stopped>>)
          /\ Quiescent => ToSeq("o1") = <<Starting, Started, Stopped>>)

\* C14 witness: the shutdown hook returned an error that was suppressed:
\* Shutdown has returned nil, the worker is still ShuttingDown, done is open
\* and the observer has seen nothing past ShuttingDown.
C14_Witness ==
  /\ sdHook = "suppressed" /\ ret["sd1"] = Nil
  /\ state = ShuttingDown /\ done = 0
  /\ reg["o1"] = "early" /\ ToSeq("o1") = <<Starting, Started, ShuttingDown>>

\* The readiness probe has yielded an error that the Error hook let through,
\* and the caller t of StartBackgroundCtx is handling or has returned it.
ProbeFailed(t) ==
  \/ pc[t] \in {"he_trans", "he_unblock"}
  \/ pc[t] = "done" /\ ret[t] = errOops

\* No stop was requested: neither Shutdown nor Terminate was called and no
\* signal came.
NoStopRequest ==
  /\ \A t \in ShutdownCallers \cup TerminateCallers : pc[t] = "idle"
  /\ signalAction = None

\* The failed start: channel o1 was registered before Start, no channel was
\* registered twice or unregistered, Start has returned the probe's error,
\* the service is still running and nobody asked it to stop.
ProbeErrorRun ==
  /\ reg["o1"] = "early"
  /\ \A o \in Chans : reg[o] # "other"
  /\ ret["st1"] = errOops
  /\ startHook = "running"
  /\ NoStopRequest

GracefulTrip == <<Starting, Started, ShuttingDown, Stopped>>

\* The graceful shutdown: channel o1 was registered before Start, no channel
\* was registered twice or unregistered, the shutdown began in Started, its
\* hook returned nil before the timeout and the start hook did not fail.
GracefulRun ==
  /\ reg["o1"] = "early"
  /\ \A o \in Chans : reg[o] # "other"
  /\ \E i \in 1..Len(recv["o1"]) : recv["o1"][i] = Event(Started, ShuttingDown, Nil)
  /\ sdHook = "returned" /\ ~sdTimedOut
  /\ startHook # "failed"

\* What is seen of a graceful shutdown, whoever began it.
GracefulOutcome ==
  /\ IsPrefix(ToSeq("o1"), GracefulTrip)
  /\ tmHook = "idle"
  /\ Quiescent =>
       /\ ToSeq("o1") = GracefulTrip /\ closed["o1"]
       /\ state = Stopped /\ done = 1

\* C16: a graceful shutdown begun by a signal (SignalAction Shutdown) and one
\* begun by a call of Shutdown, each the only stop request, are seen alike:
\* the channel receives a prefix of [Starting, Started, ShuttingDown,
\* Stopped], all four at rest, with the state Stopped and done closed; the
\* call returns nil and so does the Shutdown the watcher called, whose
\* handleError goroutine has then nothing to do.  A Shutdown signal calls
\* Terminate only through the shutdown timeout, and the handleError
\* goroutine of a shutdown that began in Started performs no transition that
\* is accepted.
C16_SignalAsShutdown ==
  /\ (GracefulRun /\ ExplicitShutdownOnly) =>
       /\ GracefulOutcome
       /\ Quiescent => \E t \in ShutdownCallers : ret[t] = Nil
  /\ (GracefulRun /\ SignalShutdownOnly) =>
       /\ GracefulOutcome
       /\ ret["watcher"] \in {None, Nil} /\ pc["sigh"] \in {"off", "done"}
       /\ Quiescent => ret["watcher"] = Nil
  /\ (SignalShutdownOnly /\ ~sdTimedOut) =>
       /\ tmHook = "idle"
       /\ pc["watcher"] \notin {"tm_begin", "tm_hook", "tm_stop", "tm_unblock"}
  /\ ( /\ SignalShutdownOnly /\ reg["o1"] = "early"
       /\ \E i \in 1..Len(recv["o1"]) : recv["o1"][i] = Event(Started, ShuttingDown, Nil) ) =>
       /\ cs # NoCS => cs.owner # "sigh"
       /\ pc["sigh"] \in {"he_trans", "he_unblock"} => state \in Terminal

\* C16 witness: the graceful shutdown begun by a signal has come to rest.
C16_Witness ==
  /\ GracefulRun /\ SignalShutdownOnly /\ Quiescent
  /\ ToSeq("o1") = GracefulTrip /\ ret["watcher"] = Nil /\ state = Stopped

\* The same shutdown begun by a call has come to rest.
C16_Explicit ==
  /\ GracefulRun /\ ExplicitShutdownOnly /\ Quiescent
  /\ ToSeq("o1") = GracefulTrip /\ ret["sd1"] = Nil /\ state = Stopped

\* C17: a call of Shutdown that finds the worker ShuttingDown returns the
\* Invalid-State error in that very step and changes nothing else: not the
\* state, not the hooks (the shutdown hook is not called again), not what the
\* channels have received or are being sent, not done or ready, and not the
\* position, error or result of any other thread, the first Shutdown's
\* included.
C17_SecondShutdown ==
  [][ \A t \in ShutdownCallers :
        (pc[t] = "idle" /\ pc'[t] # "idle" /\ state = ShuttingDown) =>
          /\ pc'[t] = "done" /\ ret'[t] = errInvalidState
          /\ IsInvalidState(ret'[t])
          /\ UNCHANGED <<shared, sigs, err, startHook, sdHook, tmHook,
                         env, reg, config>>
          /\ \A u \in Threads \ {t} : pc'[u] = pc[u] /\ ret'[u] = ret[u]
    ]_vars

\* C17 witness: the first Shutdown is waiting for its hook, the second has
\* returned Invalid-State, and the observer has seen nothing after
\* ShuttingDown.
C17_Witness ==
  /\ pc["sd1"] = "sd_wait" /\ sdHook = "running"
  /\ pc["sd2"] = "done" /\ ret["sd2"] = errInvalidState
  /\ state = ShuttingDown /\ cs = NoCS
  /\ ToSeq("o1") = <<Starting, Started, ShuttingDown>>

C19_ReadyWhenStartedOrError ==
  (Quiescent /\ state \in {Started, Error} /\ ~panicked) => ready = 1

\* C20 as stated: after a signal under SignalAction DoNothing, a worker on
\* which Terminate was never called has neither been made Terminating nor
\* had its terminate hook invoked, and one on which Shutdown was never called
\* has neither been made ShuttingDown nor had its shutdown hook invoked.
C20_DoNothingNoAction ==
  /\ (signalAction = ActDoNothing /\ pc["tm1"] = "idle") =>
       /\ tmHook = "idle" /\ state # Terminating
       /\ \A o \in Chans : \A i \in 1..Len(recv[o]) : recv[o][i].to # Terminating
  /\ (signalAction = ActDoNothing /\ \A t \in ShutdownCallers : pc[t] = "idle") =>
       /\ sdHook = "idle" /\ state # ShuttingDown

\* One of the hooks is being executed.
HookRunning ==
  startHook = "running" \/ sdHook = "running" \/ tmHook = "running"

\* C21: whoever holds the lock is inside transition(), never inside a hook;
\* and whichever hooks are running, when the lock is free a thread that
\* stands at a transition can enter it, a caller can begin Shutdown or
\* Terminate, Observe and Unobserve go through, and the holder of the lock
\* can go on delivering.
C21_HooksOutsideLock ==
  /\ cs # NoCS =>
       /\ pc[cs.owner] \in TransPcs
       /\ ~panicked => ENABLED Deliver(cs.owner)
  /\ (HookRunning /\ cs = NoCS /\ ~panicked) =>
       /\ \A t \in Threads : pc[t] \in TransPcs => ENABLED TransitionEnter(t)
       /\ CanStimulate =>
            /\ \A t \in Callers :
                 (pc[t] = "idle" /\ CanCall(t)) => ENABLED TransitionEnter(t)
            /\ ENABLED Observe("o1")
            /\ \A o \in Chans : ENABLED Unobserve(o)

\* C21 witness: while the shutdown hook is still blocked, Terminate has taken
\* the worker to Terminating and Stopped and has returned, and the observer
\* has seen it all.
C21_Witness ==
  /\ sdHook = "running" /\ pc["sd1"] = "sd_wait"
  /\ pc["tm1"] = "done" /\ ret["tm1"] = Nil /\ tmHook = "returned"
  /\ state = Stopped
  /\ ToSeq("o1") = <<Starting, Started, ShuttingDown, Terminating, Stopped>>

\* Channel o was registered once and never unregistered.
RegisteredOnce(o) == reg[o] \in {"early", "late"}

C22_JustBefore ==
  /\ reg["o2"] = "late" /\ closed["o2"]
  /\ Len(recv["o2"]) = 1 /\ recv["o2"][1].to \in Terminal

\* C23 as stated: the step in which Unobserve(o) takes o out of the
\* registry leaves no registration of o behind, whatever Observe calls went
\* before, so that o is sent nothing afterwards.
C23_UnobserveRemoves ==
  [][ \A o \in Chans :
        ( /\ cs = NoCS /\ cs' = NoCS
          /\ observers' # observers
          /\ observers' = RemoveFirst(observers, o) ) =>
          ~InSeq(observers', o) ]_vars

\* What holds of Unobserve: it takes out the first registration of o and
\* nothing else, the other registrations keep their order, and delivers and
\* closes nothing.
C23_RemovesFirstOnly ==
  [][ ( /\ cs = NoCS /\ cs' = NoCS
        /\ Len(observers') < Len(observers) ) =>
        /\ \E o \in Chans : InSeq(observers, o) /\ observers' = RemoveFirst(observers, o)
        /\ Len(observers') = Len(observers) - 1
        /\ recv' = recv /\ closed' = closed /\ state' = state ]_vars

\* Thread t performs, in this step, a transition that changes the state.
Mover(t) ==
  /\ state' # state
  /\ Site(t) \in TransPcs
  /\ IF cs' # NoCS THEN cs'.owner = t ELSE pc'[t] # pc[t]

\* Terminate is called, by a caller or by the signal watcher, and takes the
\* worker to Terminating.
TerminateMoves ==
  /\ state' = Terminating
  /\ \E t \in TerminateCallers \cup SignalThreads : Site(t) = "tm_begin" /\ Mover(t)

\* The work runner, the start hook having returned, ends the worker.
RunnerMoves == state' \in Terminal /\ Mover("runner")

\* handleError takes the worker to Error for an error that came from
\* elsewhere: in the caller of StartBackgroundCtx for the readiness probe's
\* error, in the signal watcher's goroutine for what its Shutdown or Terminate
\* returned, in a Shutdown that is still under way for its hook's error.
OutsideErrorMoves ==
  /\ state' = Error
  /\ \E t \in Threads \ {"runner"} : Site(t) = "he_trans" /\ Mover(t)

C24_Terminating ==
  /\ state = Terminating /\ tmHook = "suppressed"
  /\ pc["tm1"] = "done" /\ ret["tm1"] = Nil
  /\ done = 0 /\ Quiescent

\* The start hook has returned.
StartReturned == startHook \in {"returned", "failed"}

C25_NoOp ==
  /\ startHook = "returned" /\ pc["runner"] = "done"
  /\ state = Error /\ done = 1

\* The work runner's own broadcast has ended in a panic, and done is closed.
C25_RunnerPanic ==
  panicked /\ cs # NoCS /\ cs.owner = "runner" /\ done = 1

\* Thread t, having called Shutdown, is on the terminate path: its timeout
\* has expired and it is in the TerminateCtx it returns the result of.
Escalating(t) == pc[t] \in {"tm_begin", "tm_hook", "tm_stop", "tm_unblock"}

\* C26: a Shutdown whose timeout has expired returns what TerminateCtx
\* returns where it stands: the Invalid-State error from the first
\* transition when the state is no longer Starting, Started or ShuttingDown,
\* and then nothing else changes: no state change, no event, no call of the
\* terminate hook; nil when the terminate hook's error is suppressed and
\* after the Stopped transition and unblockWaiters.  The terminate hook is
\* called by at most one thread.
C26_EscalationResult ==
  /\ [][ \A t \in ShutdownCallers :
           /\ (pc[t] = "sd_wait" /\ sdTimedOut' /\ pc'[t] # pc[t] /\ ~sdTimedOut) =>
                pc'[t] = "tm_begin"
           /\ ( /\ pc[t] = "tm_begin" /\ pc'[t] # pc[t] /\ cs = NoCS
                /\ state \notin {Starting, Started, ShuttingDown} ) =>
                /\ pc'[t] = "done" /\ ret'[t] = errInvalidState
                /\ UNCHANGED <<shared, sigs, tmHook, sdHook, startHook, env>>
           /\ (pc[t] = "tm_begin" /\ pc'[t] = "tm_hook") =>
                (tmHook = "idle" /\ tmHook' = "running" /\ state' = Terminating)
           /\ (Escalating(t) /\ pc'[t] = "done") =>
                ret'[t] = IF pc[t] = "tm_begin" THEN errInvalidState ELSE Nil
       ]_vars
  /\ [](Cardinality({t \in Threads : pc[t] = "tm_hook"}) <= 1)

\* C26 witness: Shutdown began in Started and was accepted; Terminate was
\* called meanwhile; the timeout expired, the escalating Terminate was
\* rejected and Shutdown has returned Invalid-State, the terminate hook
\* having been called once, by the other caller.
C26_Witness ==
  /\ sdTimedOut /\ pc["sd1"] = "done" /\ ret["sd1"] = errInvalidState
  /\ pc["sd2"] = "idle" /\ signalAction = None
  /\ pc["tm1"] = "tm_hook" /\ tmHook = "running" /\ state = Terminating
  /\ ToSeq("o1") = <<Starting, Started, ShuttingDown, Terminating>>

\* The same after the work runner has stopped the worker.
C26_AfterRunner ==
  /\ sdTimedOut /\ pc["sd1"] = "done" /\ ret["sd1"] = errInvalidState
  /\ pc["sd2"] = "idle" /\ signalAction = None /\ pc["tm1"] = "idle"
  /\ tmHook = "idle" /\ state = Stopped

\* A send of the current broadcast is pending: the holder of the lock waits
\* for observers[cs.idx] to receive.
SendPending == cs # NoCS /\ ~panicked

\* C27: while a send is pending, no thread can enter transition(), Observe
\* and Unobserve cannot go through, and no channel that comes later in the
\* list and not before has received the event being sent; a step taken
\* meanwhile changes the state, the registry or what was received only by
\* being that channel's receipt.
C27_BlockingSend ==
  /\ [](SendPending =>
          /\ \A t \in Threads : ~ENABLED TransitionEnter(t)
          /\ \A o \in Chans : ~ENABLED Observe(o) /\ ~ENABLED Unobserve(o)
          /\ \A j \in cs.idx..Len(observers) :
               (\A k \in 1..(cs.idx - 1) : observers[k] # observers[j]) =>
                 \A i \in 1..Len(recv[observers[j]]) : recv[observers[j]][i] # cs.ev)
  /\ [][ SendPending =>
           /\ state' = state
           /\ (recv' # recv \/ observers' # observers \/ cs' # cs) =>
                /\ recv' = [recv EXCEPT ![observers[cs.idx]] = Append(@, cs.ev)]
                /\ cs' = NoCS \/ (cs'.owner = cs.owner /\ cs'.idx = cs.idx + 1)
                /\ observers' # observers => (cs' = NoCS /\ cs.final /\ observers' = <<>>)
       ]_vars

\* C27 witness: the Shutdown's broadcast waits for the first observer to
\* receive; the second has not received ShuttingDown, and the work runner,
\* whose start hook has returned, waits for the lock.
C27_Witness ==
  /\ SendPending /\ cs.owner = "sd1" /\ cs.idx = 1
  /\ observers = <<"o1", "o2">>
  /\ ToSeq("o1") = <<Starting, Started>> /\ ToSeq("o2") = <<Starting, Started>>
  /\ state = ShuttingDown /\ pc["runner"] = "run_stop"

====
